---- MODULE Spec2Model ----
(***************************************************************************)
(* SwarmCore (swarmalator_rl/core.py): the swarmalator physics engine and  *)
(* its hold state machine, as a state machine over one engine instance.    *)
(*                                                                         *)
(* Positions and forces are fixed point: one unit is one grid cell, and    *)
(* every operation that rounds (astype(float32), mean, sqrt, the divisions *)
(* of the force kernel) rounds to the nearest grid value; np.mod of a      *)
(* position is the floored modulus.  Phases are float32 arrays whose wrap  *)
(* depends on rounding, so they are carried in a short binary floating-    *)
(* point format: FloatBits significand bits over a unit of a twentieth of  *)
(* a turn (TwoPi == 20), every phase operation rounding to nearest, ties   *)
(* to even.  The physics constants are scaled to these units.              *)
(***************************************************************************)
EXTENDS Integers, Sequences, FiniteSets, TLC

\* ---------------------------------------------------------------- bounds
N == 3              \* number of agents (core.py uses 100)
MaxOps == 3         \* operations performed on the engine after construction
MaxAction == 4      \* action codes are 0..MaxAction (4 and above are unknown codes)

\* ------------------------------------------------- class constants (scaled)
J == 8
K == -4
REPULSION_STRENGTH == 40
EPSILON == 4
BASE_OMEGA == 1
OMEGA_VARIATION == 0
LOGICAL_WIDTH == 8
LOGICAL_HEIGHT == 8
DT == 2
TwoPi == 20         \* 2 * np.pi, in phase units
FloatBits == 3      \* significand bits of the phase format (np.float32 has 24)
TargetLimit == 11   \* range(1, min(11, N))
DistEps == 1        \* distance_sq < 1e-6: coincident on the grid

Agents == 0..(N - 1)
Min(a, b) == IF a < b THEN a ELSE b
\* Mutant of Targets: range(0, min(11, N)).
TargetsFromZero == 0..(Min(TargetLimit, N) - 1)
Targets == 1..(Min(TargetLimit, N) - 1)
Seeds == {0, 1}     \* the valid seeds tried
InvalidSeed == -1   \* RandomState(seed) raises ValueError for a negative seed
SeedArgs == {<<>>} \cup {<<s>> : s \in Seeds \cup {InvalidSeed}}   \* <<>> is None
DtArgs == {<<>>, <<-1>>}                                           \* <<>> is None
ActionArgs == 0..MaxAction

\* The function f as an explicit table, each entry evaluated once.
Table(f) == f @@ << >>

\* Division by b > 0 rounded to the nearest grid value (a floating-point result).
RoundDiv(a, b) == (2 * a + b) \div (2 * b)

\* ------------------------------------------------------------ phase format
Abs(x) == IF x < 0 THEN -x ELSE x
\* The spacing of representable values at magnitude a: 1 below 2^FloatBits,
\* doubling with every binade above.
RECURSIVE Ulp(_)
Ulp(a) == IF a < 2 ^ FloatBits THEN 1 ELSE 2 * Ulp(a \div 2)
\* x rounded to the nearest multiple of u, a tie going to the even multiple.
RoundEven(x, u) ==
    IF 2 * (x % u) < u \/ (2 * (x % u) = u /\ (x \div u) % 2 = 0)
    THEN (x \div u) * u
    ELSE (x \div u + 1) * u
\* The float32 value nearest to x.
Float32(x) == RoundEven(x, Ulp(Abs(x)))
\* C fmod(a, b) for b > 0: the exact remainder, carrying the sign of a.
Fmod(a, b) == IF a >= 0 THEN a % b ELSE -((-a) % b)

\* ------------------------------------------------------ pseudo-random stream
RngModulus == 64
\* np.random.RandomState(seed): the generator state a seed derives.
RandomState(seed) == (17 * seed + 5) % RngModulus
\* The generator state after one more draw.
Advance(s) == (5 * s + 11) % RngModulus
RECURSIVE Stream(_, _)
Stream(s, k) == IF k = 0 THEN s ELSE Advance(Stream(s, k - 1))
\* rng.uniform(low, high) for the draw that left the generator in state s,
\* then .astype(np.float32): low + (high - low) * s / RngModulus, rounded.
Uniform(low, high, s) == RoundDiv(low * RngModulus + (high - low) * s, RngModulus)

\* ------------------------------------------------------------------- reset
Zero2 == [i \in Agents |-> <<0, 0>>]
Zero1 == [i \in Agents |-> 0]

\* np.sum of the first n entries of f.
RECURSIVE SumOver(_, _)
SumOver(f, n) == IF n = 0 THEN 0 ELSE SumOver(f, n - 1) + f[n - 1]

\* np.mean(a, axis=0) of the column f over all agents.
Mean(f) == RoundDiv(SumOver(f, N), N)

\* Lines 100-110: subtract the centre of mass (cx, cy), add the domain centre.
Recentre(sample, cx, cy) ==
    [i \in Agents |-> << sample[i][1] - cx + LOGICAL_WIDTH \div 2,
                         sample[i][2] - cy + LOGICAL_HEIGHT \div 2 >>]

\* Lines 74-79: the position sample, drawn row by row from the generator state g.
SamplePos(g) ==
    [i \in Agents |-> << Uniform(0, LOGICAL_WIDTH, Stream(g, 2 * i + 1)),
                         Uniform(0, LOGICAL_HEIGHT, Stream(g, 2 * i + 2)) >>]

\* Lines 100-110 on a sample.
Recentred(sample) ==
    Recentre(sample, Mean([i \in Agents |-> sample[i][1]]),
                     Mean([i \in Agents |-> sample[i][2]]))

\* Mutant of Reinitialise: line 117 dropped, the snapshot cleared while the
\* previous action is kept.
ReinitialiseKeepAction(c, g) ==
    [c EXCEPT
       !.rng = Stream(g, 4 * N),
       !.agents_pos = Recentred(SamplePos(g)),
       !.agents_phase = [i \in Agents |->
           Float32(Uniform(0, TwoPi, Stream(g, 2 * N + i + 1)))],
       !.agents_vel = Zero2,
       !.agents_omega = [i \in Agents |->
           BASE_OMEGA + Uniform(-OMEGA_VARIATION, OMEGA_VARIATION,
                                Stream(g, 3 * N + i + 1))],
       !.agents_force = Zero2,
       !.agents_phase_derivative = Zero1,
       !.prev_positions = << >>]

\* Lines 74-118: everything reset() does once the generator is chosen.
\* g is the generator state the draws start from.
Reinitialise(c, g) ==
    [c EXCEPT
       !.rng = Stream(g, 4 * N),
       !.agents_pos = Recentred(SamplePos(g)),
       !.agents_phase = [i \in Agents |->
           Float32(Uniform(0, TwoPi, Stream(g, 2 * N + i + 1)))],
       !.agents_vel = Zero2,
       !.agents_omega = [i \in Agents |->
           BASE_OMEGA + Uniform(-OMEGA_VARIATION, OMEGA_VARIATION,
                                Stream(g, 3 * N + i + 1))],
       !.agents_force = Zero2,
       !.agents_phase_derivative = Zero1,
       !.prev_action = 0,
       !.prev_positions = << >>]

\* RandomState accepts a seed in 0 .. 2**32 - 1 and raises for any other.
ValidSeed(s) == s >= 0
\* seed is <<>> for None, <<s>> otherwise: whether lines 70-72 run without raising.
SeedAccepted(seed) == IF seed = <<>> THEN TRUE ELSE ValidSeed(seed[1])

\* Mutant of ResetCore: line 72 dropped, a given seed is stored but the stream goes on.
ResetCoreKeepStream(c, seed) ==
    IF seed = <<>>
    THEN Reinitialise(c, c.rng)
    ELSE Reinitialise([c EXCEPT !.seed = seed[1]], c.rng)

\* reset(seed): lines 63-118.  seed is <<>> for None, <<s>> otherwise.
\* The caller has checked that the seed, when given, is valid.
ResetCore(c, seed) ==
    IF seed = <<>>
    THEN Reinitialise(c, c.rng)
    ELSE Reinitialise([c EXCEPT !.seed = seed[1]], RandomState(seed[1]))

\* reset(seed) with a seed RandomState rejects: line 71 has run, line 72 raised.
ResetRaised(c, seed) == [c EXCEPT !.seed = seed[1]]

\* __init__(seed): lines 36-61, for a valid seed.
Construct(seed) ==
    ResetCore([seed |-> seed,
               rng |-> RandomState(seed),
               agents_pos |-> Zero2,
               agents_phase |-> Zero1,
               agents_vel |-> Zero2,
               agents_omega |-> Zero1,
               agents_force |-> Zero2,
               agents_phase_derivative |-> Zero1,
               prev_action |-> 0,
               prev_positions |-> << >>], <<>>)

\* ------------------------------------------------------------ force kernel
\* np.sqrt on the grid: the nearest value to the square root of n.
NearestRoot(n) == CHOOSE r \in 0..(n + 1) : (2 * r - 1) * (2 * r - 1) < 4 * n + 1
                                            /\ 4 * n < (2 * r + 1) * (2 * r + 1)
\* Coordinates lie in [-W/2, 3W/2] (a re-centred sample) or in [0, W) (after a
\* wrap), so no squared distance exceeds 2 * (2 * max(W, H))^2.
MaxDistanceSq == 8 * (LOGICAL_WIDTH + LOGICAL_HEIGHT) * (LOGICAL_WIDTH + LOGICAL_HEIGHT)
RootTable == [n \in 0..MaxDistanceSq |-> NearestRoot(n)]
ISqrt(n) == RootTable[n]

\* np.cos and np.sin in units of 1 / TrigScale: the cosine of 0, 1, .. 5
\* twentieths of a turn, the other quadrants by symmetry.
TrigScale == 4
CosQuadrant == << 4, 4, 3, 2, 1, 0 >>
Cos(d) ==
    LET q == d % TwoPi
    IN  IF q <= 5 THEN CosQuadrant[q + 1]
        ELSE IF q <= 15 THEN -CosQuadrant[Abs(10 - q) + 1]
        ELSE CosQuadrant[TwoPi - q + 1]
Sin(d) == Cos(d - 5)

\* _toroidal_distance, lines 136-141: a difference d along an axis of the given
\* size, shortened by one period when it exceeds half of it.  The kernel does
\* not call it.
ToroidalDifference(d, size) ==
    IF 2 * Abs(d) > size THEN (IF d > 0 THEN d - size ELSE d + size) ELSE d

\* Mutant of Dx: the x difference taken through _toroidal_distance.
DxToroidal(c, i, j) ==
    ToroidalDifference(c.agents_pos[j][1] - c.agents_pos[i][1], LOGICAL_WIDTH)

\* Lines 169-170: r_diff[i, j] = pos[j] - pos[i], no toroidal wrapping.
Dx(c, i, j) == c.agents_pos[j][1] - c.agents_pos[i][1]
Dy(c, i, j) == c.agents_pos[j][2] - c.agents_pos[i][2]
\* Line 173.
DistanceSq(dx, dy) == dx * dx + dy * dy
\* Line 177: the diagonal and the near-coincident pairs.
Mask(i, j, distance_sq) == i = j \/ distance_sq < DistEps
\* Lines 174, 179: the distance of an unmasked pair.
Distance(distance_sq) == ISqrt(distance_sq)
\* Line 184.
PhaseDiff(c, i, j) == Float32(c.agents_phase[j] - c.agents_phase[i])

\* Lines 190-200: repulsion on i from j along the displacement d (dx or dy):
\* -d / distance * REPULSION_STRENGTH / (distance_sq + EPSILON) / N.
Repulsion(d, distance_sq, distance) ==
    RoundDiv(-d * REPULSION_STRENGTH, distance * (distance_sq + EPSILON) * N)

\* Lines 209-217: J term on i from j along d: d / distance * (1 + J cos) / N.
Attraction(d, phase_diff, distance) ==
    RoundDiv(d * (TrigScale + J * Cos(phase_diff)), distance * N * TrigScale)

\* Line 225: K * sin(phase_diff) / distance / N.
PhaseCoupling(phase_diff, distance) ==
    RoundDiv(K * Sin(phase_diff), distance * N * TrigScale)

NoTerms == [fx |-> 0, fy |-> 0, dphase |-> 0]

\* Lines 190-225 for one unmasked pair: the force on i from j (repulsion plus
\* J term, per axis) and j's contribution to i's phase derivative.
UnmaskedTerms(dx, dy, distance_sq, distance, phase_diff) ==
    [fx |-> Repulsion(dx, distance_sq, distance) + Attraction(dx, phase_diff, distance),
     fy |-> Repulsion(dy, distance_sq, distance) + Attraction(dy, phase_diff, distance),
     dphase |-> PhaseCoupling(phase_diff, distance)]

\* Lines 173-225 for the pair (i, j) at displacement (dx, dy): a masked pair
\* has infinite distance and contributes nothing.
PairKernel(i, j, dx, dy, phase_diff) ==
    IF Mask(i, j, DistanceSq(dx, dy))
    THEN NoTerms
    ELSE UnmaskedTerms(dx, dy, DistanceSq(dx, dy), Distance(DistanceSq(dx, dy)),
                       phase_diff)

\* Lines 160-225: what agent j contributes to agent i.
PairTerms(c, i, j) == PairKernel(i, j, Dx(c, i, j), Dy(c, i, j), PhaseDiff(c, i, j))

AddTerms(s, t) ==
    [fx |-> s.fx + t.fx, fy |-> s.fy + t.fy, dphase |-> s.dphase + t.dphase]

\* Lines 203-204, 220-221, 228: np.sum(..., axis=1), the contributions of
\* agents 0..n-1 to agent i.
RECURSIVE SumTerms(_, _, _)
SumTerms(c, i, n) ==
    IF n = 0 THEN NoTerms
    ELSE AddTerms(SumTerms(c, i, n - 1), PairTerms(c, i, n - 1))

\* Mutant of WriteForces: line 158 without the copy, the derivative array being
\* the natural-frequency array itself, accumulated into in place.
WriteForcesAliased(c, total) ==
    [c EXCEPT
       !.agents_force = [i \in Agents |-> << total[i].fx, total[i].fy >>],
       !.agents_phase_derivative = [i \in Agents |->
           Float32(c.agents_omega[i] + total[i].dphase)],
       !.agents_omega = [i \in Agents |->
           Float32(c.agents_omega[i] + total[i].dphase)]]

\* Lines 157-158, 203-228: the force and phase-derivative arrays written from
\* the per-agent totals, the derivative starting at the natural frequency.
WriteForces(c, total) ==
    [c EXCEPT
       !.agents_force = [i \in Agents |-> << total[i].fx, total[i].fy >>],
       !.agents_phase_derivative = [i \in Agents |->
           Float32(c.agents_omega[i] + total[i].dphase)]]

\* _calculate_forces: lines 148-228.
CalculateForces(c) == WriteForces(c, Table([i \in Agents |-> SumTerms(c, i, N)]))

\* --------------------------------------------------------------------- step
HoldsHero(action) == action = 1 \/ action = 3
\* Mutant of HoldsTargets: every code from 2 up holds the targets.
HoldsTargetsFrom2(action) == action >= 2
HoldsTargets(action) == action = 2 \/ action = 3

\* The agents an action holds.
Held(action) == (IF HoldsHero(action) THEN {0} ELSE {})
                \cup (IF HoldsTargets(action) THEN Targets ELSE {})

\* Mutant of Capture: a snapshot is taken only when leaving the no-op action.
CaptureAfterNoOp(c, action) ==
    IF c.prev_action = 0 /\ action # 0
    THEN [c EXCEPT !.prev_positions =
            [i \in (DOMAIN c.prev_positions) \cup Held(action) |->
               IF i \in Held(action) THEN c.agents_pos[i] ELSE c.prev_positions[i]]]
    ELSE c

\* Lines 242-247: the indices whose snapshot entry the step assigns.
Captured(c, action) == IF c.prev_action # action THEN Held(action) ELSE {}

\* Lines 241-247: snapshot the groups the new action holds, when the action changed.
Capture(c, action) ==
    IF Captured(c, action) # {}
    THEN [c EXCEPT !.prev_positions =
            [i \in (DOMAIN c.prev_positions) \cup Captured(c, action) |->
               IF i \in Captured(c, action)
               THEN c.agents_pos[i] ELSE c.prev_positions[i]]]
    ELSE c

\* Line 260: np.mod(phase, 2 * np.pi) on float32.  The remainder is fmod's;
\* a negative one has the modulus added, and that sum is rounded.
WrapPhase(p) ==
    IF Fmod(p, TwoPi) < 0 THEN Float32(Fmod(p, TwoPi) + TwoPi) ELSE Fmod(p, TwoPi)
\* Lines 263-264: np.mod of a position, on the grid.
WrapPos(p) == << p[1] % LOGICAL_WIDTH, p[2] % LOGICAL_HEIGHT >>

\* Lines 253-264: velocity = force, explicit Euler, then the wraps.
Integrate(c, dt) ==
    [c EXCEPT
       !.agents_vel = c.agents_force,
       !.agents_pos = [i \in Agents |->
           WrapPos(<< c.agents_pos[i][1] + c.agents_force[i][1] * dt,
                      c.agents_pos[i][2] + c.agents_force[i][2] * dt >>)],
       !.agents_phase = [i \in Agents |->
           WrapPhase(Float32(c.agents_phase[i]
                             + Float32(c.agents_phase_derivative[i] * dt)))]]

\* Lines 266-278 for a set of held agents.
PinAgents(c, held) ==
    [c EXCEPT
       !.agents_pos = [i \in Agents |->
           IF i \in held /\ i \in DOMAIN c.prev_positions
           THEN c.prev_positions[i] ELSE c.agents_pos[i]],
       !.agents_vel = [i \in Agents |->
           IF i \in held THEN <<0, 0>> ELSE c.agents_vel[i]],
       !.agents_force = [i \in Agents |->
           IF i \in held THEN <<0, 0>> ELSE c.agents_force[i]]]
\* Mutant of ApplyHolds: the hold of the previous action is enforced as well.
ApplyHoldsSticky(c, action) == PinAgents(c, Held(action) \cup Held(c.prev_action))

\* Lines 266-278: re-pin the held agents and zero their velocity and force.
ApplyHolds(c, action) == PinAgents(c, Held(action))

\* Lines 238-239: dt is <<>> for None.
DtOf(dt) == IF dt = <<>> THEN DT ELSE dt[1]

\* step(dt, action): lines 230-280.
StepCore(c, dt, action) ==
    [ApplyHolds(Integrate(CalculateForces(Capture(c, action)), DtOf(dt)), action)
       EXCEPT !.prev_action = action]

\* ---------------------------------------------------------------- get_state
\* The dict get_state returns.  views names the keys whose array shares memory
\* with an array of the engine; a .copy() shares none.
NoSnapshot == << >>

\* Mutant of GetStateCore: the position arrays returned without .copy(),
\* agents_pos being the engine's array and hero_pos a view of its row 0.
GetStateViews(c) ==
    [agents_pos |-> c.agents_pos,
     agents_phase |-> c.agents_phase,
     hero_pos |-> c.agents_pos[0],
     views |-> {"agents_pos", "hero_pos"}]

\* get_state: lines 291-302.
GetStateCore(c) ==
    [agents_pos |-> c.agents_pos,
     agents_phase |-> c.agents_phase,
     hero_pos |-> c.agents_pos[0],
     views |-> {}]

\* Line 257: the phase array after the in-place +=, before line 260 rebinds
\* agents_phase to the array np.mod returns.
IntegratedPhase(c, dt) ==
    [i \in Agents |->
        Float32(c.agents_phase[i] + Float32(c.agents_phase_derivative[i] * dt))]

\* What a dict returned earlier holds after step(dt, action) took the engine
\* from before to after: lines 256, 263-264, 269 and 276 write agents_pos in
\* place and line 257 writes agents_phase in place, so an array sharing their
\* memory shows those writes; line 260 leaves the old phase array behind.
AfterStep(d, before, after, dt, action) ==
    IF d = NoSnapshot THEN d
    ELSE [agents_pos |-> IF "agents_pos" \in d.views
                         THEN after.agents_pos ELSE d.agents_pos,
          agents_phase |-> IF "agents_phase" \in d.views
                           THEN IntegratedPhase(
                                    CalculateForces(Capture(before, action)), DtOf(dt))
                           ELSE d.agents_phase,
          hero_pos |-> IF "hero_pos" \in d.views
                       THEN after.agents_pos[0] ELSE d.hero_pos,
          views |-> d.views \ {"agents_phase"}]

\* What a dict returned earlier holds after reset: lines 75, 82 and 110 bind
\* new arrays, so nothing is written in place and no memory stays shared.
AfterReset(d) == IF d = NoSnapshot THEN d ELSE [d EXCEPT !.views = {}]

\* ------------------------------------------------------------ state machine
VARIABLES
    core,       \* the SwarmCore instance
    op,         \* the last call: "construct", "reset", "reset_raised", "step"
    arg,        \* its arguments
    pre,        \* the instance as it was when the call was made
    nops,       \* calls made since construction
    heroPin,    \* agent 0's position before the step that last activated HoldHero
    returned,   \* the dict the last get_state call returned, as the caller holds it
    observed    \* the instance as it was when that call was made

vars == <<core, op, arg, pre, nops, heroPin, returned, observed>>

NoArg == [dt |-> <<>>, action |-> 0, seed |-> <<>>]

Init ==
    \E s \in Seeds :
       /\ core = Construct(s)
       /\ op = "construct"
       /\ arg = [NoArg EXCEPT !.seed = <<s>>]
       /\ pre = Construct(s)
       /\ nops = 0
       /\ heroPin = Construct(s).agents_pos[0]
       /\ returned = NoSnapshot
       /\ observed = NoSnapshot

\* step(dt, action)
Step(dt, action) ==
    /\ nops < MaxOps
    /\ core' = StepCore(core, dt, action)
    /\ op' = "step"
    /\ arg' = [NoArg EXCEPT !.dt = dt, !.action = action]
    /\ pre' = core
    /\ nops' = nops + 1
    /\ heroPin' = IF HoldsHero(action) /\ ~HoldsHero(core.prev_action)
                  THEN core.agents_pos[0] ELSE heroPin
    /\ returned' = AfterStep(returned, core, core', dt, action)
    /\ UNCHANGED observed

\* reset(seed), the generator accepting the seed (or none given)
Reset(seed) ==
    /\ nops < MaxOps
    /\ SeedAccepted(seed)
    /\ core' = ResetCore(core, seed)
    /\ op' = "reset"
    /\ arg' = [NoArg EXCEPT !.seed = seed]
    /\ pre' = core
    /\ nops' = nops + 1
    /\ returned' = AfterReset(returned)
    /\ UNCHANGED <<heroPin, observed>>

\* reset(seed), RandomState(seed) raising
ResetFails(seed) ==
    /\ nops < MaxOps
    /\ ~SeedAccepted(seed)
    /\ core' = ResetRaised(core, seed)
    /\ op' = "reset_raised"
    /\ arg' = [NoArg EXCEPT !.seed = seed]
    /\ pre' = core
    /\ nops' = nops + 1
    /\ UNCHANGED <<heroPin, returned, observed>>

\* get_state()
GetState ==
    /\ nops < MaxOps
    /\ returned' = GetStateCore(core)
    /\ observed' = core
    /\ op' = "get_state"
    /\ arg' = NoArg
    /\ pre' = core
    /\ nops' = nops + 1
    /\ UNCHANGED <<core, heroPin>>

Next ==
    \/ \E dt \in DtArgs, action \in ActionArgs : Step(dt, action)
    \/ \E seed \in SeedArgs : Reset(seed)
    \/ \E seed \in SeedArgs : ResetFails(seed)

Spec == Init /\ [][Next]_vars

\* The same engine with get_state calls interleaved.  get_state assigns no
\* field of the engine, so the claims about the engine alone are checked
\* under Spec.
NextObserve ==
    \/ Next
    \/ GetState

SpecObserve == Init /\ [][NextObserve]_vars

\* ------------------------------------------------------------------ claims
\* What the claims compare the engine against.
InDomain(p) == /\ 0 <= p[1] /\ p[1] < LOGICAL_WIDTH
               /\ 0 <= p[2] /\ p[2] < LOGICAL_HEIGHT

\* The wrapped Euler update of agent i from the state c: position plus net
\* force times dt, modulo the domain.
EulerFrom(p, f, dt) ==
    << (p[1] + f[1] * dt) % LOGICAL_WIDTH, (p[2] + f[2] * dt) % LOGICAL_HEIGHT >>
EulerPos(c, dt, i) ==
    EulerFrom(c.agents_pos[i], CalculateForces(c).agents_force[i], DtOf(dt))

\* The agents a hold action is meant to pin: {} for 0, {0} for 1,
\* {1..min(10, N-1)} for 2, {0..min(10, N-1)} for 3.
Scope(action) ==
    CASE action = 1 -> {0}
      [] action = 2 -> 1..Min(10, N - 1)
      [] action = 3 -> 0..Min(10, N - 1)
      [] OTHER -> {}

KnownHold(action) == action \in {1, 2, 3}

\* C1 (hold pinning): after a step whose action includes HoldHero, agent 0 is
\* exactly where it was before the integration of the step that activated the
\* hold, for as long as the hold stays active (through any mix of 1 and 3).
C1_HoldPinning ==
    (op = "step" /\ arg.action \in {1, 3}) => core.agents_pos[0] = heroPin

\* C1 witness: a hold kept across a change of action (1 -> 3 or 3 -> 1), in a
\* step whose integration would have moved agent 0 away from the pin.
C1_Witness ==
    /\ op = "step" /\ arg.action \in {1, 3}
    /\ pre.prev_action \in {1, 3} /\ pre.prev_action # arg.action
    /\ EulerPos(pre, arg.dt, 0) # heroPin
    /\ core.agents_pos[0] = heroPin

\* C2 (position bounds), as claimed: after every step every agent's position
\* lies in [0, W) x [0, H), held agents included.
C2_PositionBounds ==
    op = "step" => \A i \in Agents : InDomain(core.agents_pos[i])

\* C4 (hold release): the first no-op step after a HoldHero step leaves agent 0
\* at the wrapped Euler update computed from the position it was pinned at.
C4_HoldRelease ==
    (op = "step" /\ arg.action = 0 /\ pre.prev_action \in {1, 3}) =>
        /\ pre.agents_pos[0] = heroPin
        /\ core.agents_pos[0] = EulerPos(pre, arg.dt, 0)

\* C4 witness: a release step that moves agent 0 off its pin.
C4_Witness ==
    /\ op = "step" /\ arg.action = 0 /\ pre.prev_action \in {1, 3}
    /\ pre.agents_pos[0] = heroPin
    /\ core.agents_pos[0] # heroPin

\* C5 (idempotent reset): after reset(seed) with a seed given, the whole engine
\* state is the state construction with that seed produces, whatever came before.
C5_IdempotentReset ==
    (op = "reset" /\ arg.seed # <<>>) => core = Construct(arg.seed[1])

\* C5 witness: reset(seed) called during an active hold, the instance holding
\* snapshots and far from its constructed state.
C5_Witness ==
    /\ op = "reset" /\ arg.seed # <<>>
    /\ KnownHold(pre.prev_action)
    /\ DOMAIN pre.prev_positions # {}
    /\ pre # Construct(arg.seed[1])
    /\ core = Construct(arg.seed[1])

\* Two engine states with the same positions, phases, natural frequencies and
\* hold state.
SameInitialArrays(a, b) ==
    /\ a.agents_pos = b.agents_pos
    /\ a.agents_phase = b.agents_phase
    /\ a.agents_omega = b.agents_omega
    /\ a.prev_action = b.prev_action
    /\ a.prev_positions = b.prev_positions

\* C6 (reset without a seed), as claimed: after reset() the positions, phases
\* and hold state are those construction with the stored seed produces.
C6_ResetNoneRestarts ==
    (op = "reset" /\ arg.seed = <<>> /\ ValidSeed(pre.seed)) =>
        SameInitialArrays(core, Construct(pre.seed))

\* The engine state c has every agent of the action's scope at its snapshot and
\* every other agent at the wrapped Euler update from positions p under forces f.
ScopeHolds(c, p, f, dt, action) ==
    \A i \in Agents :
        IF i \in Scope(action)
        THEN /\ i \in DOMAIN c.prev_positions
             /\ c.agents_pos[i] = c.prev_positions[i]
        ELSE c.agents_pos[i] = EulerFrom(p[i], f[i], dt)

SameDynamics(a, b) ==
    /\ a.agents_pos = b.agents_pos
    /\ a.agents_phase = b.agents_phase
    /\ a.agents_vel = b.agents_vel
    /\ a.agents_force = b.agents_force

\* C8 (unknown action codes): a step with a code other than 1, 2, 3 captures
\* nothing and leaves positions, phases, velocities and forces as a step with
\* action 0 from the same state does; and a hold entered from such a code
\* snapshots the pre-step position of each agent it pins.
C8_UnknownActionNoOp ==
    /\ (op = "step" /\ ~KnownHold(arg.action)) =>
          /\ SameDynamics(core, StepCore(pre, arg.dt, 0))
          /\ core.prev_positions = pre.prev_positions
    /\ (op = "step" /\ KnownHold(arg.action) /\ pre.prev_action \notin 0..3) =>
          \A i \in Scope(arg.action) :
              /\ i \in DOMAIN core.prev_positions
              /\ core.prev_positions[i] = pre.agents_pos[i]
              /\ core.agents_pos[i] = pre.agents_pos[i]

\* C8 witness: a hold entered right after a step with an unknown code, that
\* step having moved the agents the hold pins from an older snapshot.
C8_Witness ==
    /\ op = "step" /\ KnownHold(arg.action) /\ pre.prev_action \notin 0..3
    /\ \E i \in Scope(arg.action) :
          /\ i \in DOMAIN pre.prev_positions
          /\ pre.prev_positions[i] # pre.agents_pos[i]
          /\ core.prev_positions[i] = pre.agents_pos[i]

\* C9 (configuration errors), as claimed: a reset that ends in an error leaves
\* the engine, the stored seed included, as it was.
C9_FailedResetKeepsState ==
    op = "reset_raised" => core = pre

\* C10 (phase bounds), as claimed: after every step every phase lies in
\* [0, 2 pi), and it is the phase the same step without any hold produces.
C10_PhaseBounds ==
    op = "step" =>
        /\ \A i \in Agents : 0 <= core.agents_phase[i] /\ core.agents_phase[i] < TwoPi
        /\ core.agents_phase = StepCore(pre, arg.dt, 0).agents_phase

\* C11 (natural frequencies): a step with any action leaves every agent's
\* natural frequency as it was before the step.
C11_OmegaUnchanged ==
    op = "step" => core.agents_omega = pre.agents_omega

\* C11 witness: a step in which the phase derivative, initialised from the
\* natural frequency, accumulated a coupling term and so differs from it.
C11_Witness ==
    /\ op = "step"
    /\ \E i \in Agents : core.agents_phase_derivative[i] # core.agents_omega[i]
    /\ core.agents_omega = pre.agents_omega

\* The dict d holds the positions, phases and hero position of the engine c.
HoldsValuesOf(d, c) ==
    /\ d.agents_pos = c.agents_pos
    /\ d.agents_phase = c.agents_phase
    /\ d.hero_pos = c.agents_pos[0]

\* C12 (get_state returns copies): the dict a get_state call returned holds the
\* engine's positions, phases and hero position (positions[0]) of the time of
\* the call, right after the call and after any later step or reset; and the
\* call itself leaves the engine as it was.
C12_GetStateCopies ==
    /\ returned # NoSnapshot => HoldsValuesOf(returned, observed)
    /\ op = "get_state" => (observed = pre /\ core = pre)

\* C12 witness: a step after a get_state call has moved every agent and changed
\* a phase, and the dict returned still holds the values of the time of the call.
C12_Witness ==
    /\ op = "step" /\ returned # NoSnapshot
    /\ \A i \in Agents : core.agents_pos[i] # returned.agents_pos[i]
    /\ core.agents_pos[0] # returned.hero_pos
    /\ core.agents_phase # returned.agents_phase
    /\ HoldsValuesOf(returned, observed)

\* C13 (snapshot entries), as claimed: after a step whose action does not
\* include HoldHero the hold snapshot has no entry for agent 0, and after a step
\* whose action does not include HoldTargets it has none for agents
\* 1..min(10, N-1).
C13_SnapshotOnlyActive ==
    op = "step" =>
        /\ ~(arg.action \in {1, 3}) => 0 \notin DOMAIN core.prev_positions
        /\ ~(arg.action \in {2, 3}) =>
              \A i \in 1..Min(10, N - 1) : i \notin DOMAIN core.prev_positions

\* C14 (capture rule), as claimed: a step assigns the snapshot entries of a
\* group (the hero, the targets) only when its action differs from the previous
\* action and includes that group's hold while the previous action did not; so
\* not in 1->3 or 3->1 for the hero, nor in 2->3 or 3->2 for the targets.
C14_CaptureRule ==
    op = "step" =>
        /\ 0 \in Captured(pre, arg.action) =>
              /\ arg.action # pre.prev_action
              /\ arg.action \in {1, 3} /\ pre.prev_action \notin {1, 3}
        /\ \A i \in 1..Min(10, N - 1) :
              i \in Captured(pre, arg.action) =>
                 /\ arg.action # pre.prev_action
                 /\ arg.action \in {2, 3} /\ pre.prev_action \notin {2, 3}

\* The displacement from agent i to agent j in the engine state c: the
\* straight-line difference, or the toroidally shortened one.
Displacement(c, i, j, toroidal) ==
    IF toroidal
    THEN << ToroidalDifference(c.agents_pos[j][1] - c.agents_pos[i][1], LOGICAL_WIDTH),
            ToroidalDifference(c.agents_pos[j][2] - c.agents_pos[i][2], LOGICAL_HEIGHT) >>
    ELSE << c.agents_pos[j][1] - c.agents_pos[i][1],
            c.agents_pos[j][2] - c.agents_pos[i][2] >>

\* The pair terms (repulsion, J term, K term) of a given displacement d.
TermsAt(c, i, j, d) == PairKernel(i, j, d[1], d[2], PhaseDiff(c, i, j))

\* The contributions of agents 0..n-1 to agent i under either displacement.
RECURSIVE KernelSum(_, _, _, _)
KernelSum(c, i, n, toroidal) ==
    IF n = 0 THEN NoTerms
    ELSE AddTerms(KernelSum(c, i, n - 1, toroidal),
                  TermsAt(c, i, n - 1, Displacement(c, i, n - 1, toroidal)))

\* Agent i's force and phase derivative in c are those the totals t give.
ForceIs(c, i, t) == c.agents_force[i] = << t.fx, t.fy >>
DerivativeIs(c, i, t) ==
    c.agents_phase_derivative[i] = Float32(c.agents_omega[i] + t.dphase)

\* Agent i's phase derivative in c is the one the totals t give, and so is its
\* force unless the agent is held.
MatchesTotals(c, i, t, held) ==
    /\ DerivativeIs(c, i, t)
    /\ ~held => ForceIs(c, i, t)

\* C15 (unwrapped difference): after a step the phase derivative of every agent
\* and the force of every agent the action does not hold are the sums, over the
\* other agents j, of the repulsion, J and K terms of the straight-line
\* displacement (x_j - x_i, y_j - y_i) of the positions the step started from,
\* whatever its length.
C15_UnwrappedDifference ==
    op = "step" =>
        \A i \in Agents :
            MatchesTotals(core, i, KernelSum(pre, i, N, FALSE), i \in Held(arg.action))

\* C15 witness: a step from a state with a pair more than half the domain
\* apart along an axis, so that the straight-line distance exceeds the wrapped
\* one, the force on the free agent i being the straight-line sum and not the
\* sum the toroidal displacement gives.
C15_Witness ==
    /\ op = "step"
    /\ \E i \in Agents \ Held(arg.action), j \in Agents :
          /\ 2 * Abs(pre.agents_pos[j][1] - pre.agents_pos[i][1]) > LOGICAL_WIDTH
          /\ DistanceSq(Displacement(pre, i, j, FALSE)[1], Displacement(pre, i, j, FALSE)[2])
                > DistanceSq(Displacement(pre, i, j, TRUE)[1], Displacement(pre, i, j, TRUE)[2])
          /\ ForceIs(core, i, KernelSum(pre, i, N, FALSE))
          /\ ~ForceIs(core, i, KernelSum(pre, i, N, TRUE))

\* C16 (snapshot entry at enforcement): after a step with a hold action every
\* agent of the action's scope has an entry in the hold snapshot and sits at
\* it with zero velocity and force, in every action sequence and across resets.
C16_EntryWhenEnforced ==
    (op = "step" /\ KnownHold(arg.action)) =>
        \A i \in Scope(arg.action) :
            /\ i \in DOMAIN core.prev_positions
            /\ core.agents_pos[i] = core.prev_positions[i]
            /\ core.agents_vel[i] = <<0, 0>>
            /\ core.agents_force[i] = <<0, 0>>

\* C16 witness: the first hold step after a reset() emptied the snapshot, the
\* generator having moved on from its constructed state; every agent in scope
\* has its entry and is held at it, away from its integrated position.
C16_Witness ==
    /\ op = "step" /\ KnownHold(arg.action)
    /\ pre.prev_positions = << >> /\ pre.rng # Construct(pre.seed).rng
    /\ \A i \in Scope(arg.action) :
          /\ i \in DOMAIN core.prev_positions
          /\ core.agents_pos[i] = core.prev_positions[i]
          /\ EulerPos(pre, arg.dt, i) # core.prev_positions[i]

====
